---- MODULE Spec2Model ----
(***************************************************************************)
(* Business Document Analyzer (ideaevalution.py).                          *)
(*                                                                         *)
(* One request at a time is taken through analyze_document:                *)
(*   safe_extract_text -> analyze_content -> compute_viability_score ->    *)
(*   AnalysisResponse(...), with the top-level except clause as the only   *)
(* failure boundary.  Texts are Python strings and are modelled as TLA+    *)
(* strings; every rule is computed character by character the way the      *)
(* code computes it (str.lower, str.count, `in`, re.search, re.findall,    *)
(* re.finditer with re.IGNORECASE, re.split, str.strip, list(set(...))).   *)
(***************************************************************************)
EXTENDS Integers, Sequences, FiniteSets, TLC

VARIABLES pc, hashseed, file, text, analysis, viability, response, outcome,
          error, prev

vars == <<pc, hashseed, file, text, analysis, viability, response, outcome,
          error, prev>>

(***************************************************************************)
(* Bounds of the model.                                                    *)
(***************************************************************************)
MaxParas == 2
NumSeeds == 2

(***************************************************************************)
(* Characters and strings.                                                 *)
(***************************************************************************)
UpperAlpha == "ABCDEFGHIJKLMNOPQRSTUVWXYZ"
LowerAlpha == "abcdefghijklmnopqrstuvwxyz"
DigitChars == "0123456789"

Ch(s, i) == SubSeq(s, i, i)

CharsOf(s) == {Ch(s, i) : i \in 1..Len(s)}

UpperSet == CharsOf(UpperAlpha)
LowerSet == CharsOf(LowerAlpha)
DigitSet == CharsOf(DigitChars)

\* \s of the re module, ASCII part
SpaceSet == {" ", "\n", "\t", "\r", "\f"}

\* \w of the re module, ASCII part
WordSet == UpperSet \cup LowerSet \cup DigitSet \cup {"_"}

LowerOf == [c \in UpperSet |-> Ch(LowerAlpha, CHOOSE i \in 1..26 : Ch(UpperAlpha, i) = c)]

LowerChar(c) == IF c \in UpperSet THEN LowerOf[c] ELSE c

RECURSIVE Lower(_)
\* str.lower()
Lower(s) == IF s = "" THEN "" ELSE LowerChar(Ch(s, 1)) \o Lower(Tail(s))

\* s[i-1:].startswith(p), 1-based i
StartsWithAt(s, i, p) == /\ i + Len(p) - 1 <= Len(s)
                         /\ SubSeq(s, i, i + Len(p) - 1) = p

StartsWith(s, p) == StartsWithAt(s, 1, p)

EndsWith(s, p) == /\ Len(p) <= Len(s)
                  /\ SubSeq(s, Len(s) - Len(p) + 1, Len(s)) = p

\* `sub in s`, and re.search of a literal
Contains(s, sub) == \E i \in 1..Len(s) : StartsWithAt(s, i, sub)

RECURSIVE CountFrom(_, _, _)
CountFrom(s, sub, i) ==
    IF i + Len(sub) - 1 > Len(s) THEN 0
    ELSE IF StartsWithAt(s, i, sub) THEN 1 + CountFrom(s, sub, i + Len(sub))
    ELSE CountFrom(s, sub, i + 1)

\* str.count(sub): non-overlapping occurrences, left to right
Count(s, sub) == CountFrom(s, sub, 1)

RECURSIVE LStrip(_)
LStrip(s) == IF s # "" /\ Ch(s, 1) \in SpaceSet THEN LStrip(Tail(s)) ELSE s

RECURSIVE RStrip(_)
RStrip(s) == IF s # "" /\ Ch(s, Len(s)) \in SpaceSet
             THEN RStrip(SubSeq(s, 1, Len(s) - 1)) ELSE s

\* str.strip()
Strip(s) == RStrip(LStrip(s))

RECURSIVE Join(_, _)
\* sep.join(parts)
Join(parts, sep) ==
    IF parts = <<>> THEN ""
    ELSE IF Len(parts) = 1 THEN parts[1]
    ELSE parts[1] \o sep \o Join(Tail(parts), sep)

RECURSIVE SumSeq(_)
SumSeq(q) == IF q = <<>> THEN 0 ELSE q[1] + SumSeq(Tail(q))

RECURSIVE FilterNonEmpty(_)
FilterNonEmpty(q) ==
    IF q = <<>> THEN <<>>
    ELSE IF q[1] = "" THEN FilterNonEmpty(Tail(q))
    ELSE <<q[1]>> \o FilterNonEmpty(Tail(q))

Take(q, n) == SubSeq(q, 1, IF Len(q) < n THEN Len(q) ELSE n)

Elems(q) == {q[i] : i \in 1..Len(q)}

(***************************************************************************)
(* Values.                                                                 *)
(***************************************************************************)
Nil == [nil |-> TRUE]

\* Python's None / a present value, for UploadFile.filename
NoneVal == <<>>
Some(x) == <<x>>

(***************************************************************************)
(* safe_extract_text                                                       *)
(***************************************************************************)
ExtractionFailedPrefix == "Text extraction failed"

EmptyDocumentText == "Document appears to be empty"

\* f"Text extraction failed: {str(e)}"
ExtractionFailure(msg) == ExtractionFailedPrefix \o ": " \o msg

\* [para.text.strip() for para in doc.paragraphs if para.text.strip()]
StrippedParagraphs(paras) ==
    FilterNonEmpty([i \in 1..Len(paras) |-> Strip(paras[i])])

safe_extract_text(f) ==
    IF f.filename = NoneVal
    THEN ExtractionFailure("'NoneType' object has no attribute 'lower'")
    ELSE IF ~EndsWith(Lower(f.filename[1]), ".docx")
    THEN ExtractionFailure("Only .docx files are supported")
    ELSE IF ~f.readable
    THEN ExtractionFailure("File is not a zip file")
    ELSE LET paragraphs == StrippedParagraphs(f.paragraphs)
         IN  IF paragraphs # <<>> THEN Join(paragraphs, "\n")
             ELSE EmptyDocumentText

(***************************************************************************)
(* robust_summary                                                          *)
(***************************************************************************)
SentenceEnd == {".", "!", "?"}

RECURSIVE SplitFrom(_, _, _)
\* re.split(r'[.!?]', text): i scans, b is where the current piece begins
SplitFrom(s, b, i) ==
    IF i > Len(s) THEN <<SubSeq(s, b, Len(s))>>
    ELSE IF Ch(s, i) \in SentenceEnd
    THEN <<SubSeq(s, b, i - 1)>> \o SplitFrom(s, i + 1, i + 1)
    ELSE SplitFrom(s, b, i + 1)

SplitSentences(s) == SplitFrom(s, 1, 1)

robust_summary(t) ==
    IF t = "" \/ StartsWith(t, ExtractionFailedPrefix)
    THEN "No content available for summary"
    ELSE LET pieces == SplitSentences(t)
             sentences == FilterNonEmpty([i \in 1..Len(pieces) |-> Strip(pieces[i])])
         IN  Join(Take(sentences, 3), ". ") \o (IF sentences # <<>> THEN "." ELSE "")

(***************************************************************************)
(* analyze_content: scalability                                            *)
(***************************************************************************)
scalability_keywords ==
    [architecture |-> <<"microservices", "kubernetes", "serverless">>,
     growth       |-> <<"expand", "global", "scale">>,
     automation   |-> <<"CI/CD", "terraform", "ansible">>,
     limitations  |-> <<"bottleneck", "constraint", "limit">>]

\* sum(text_lower.count(keyword) for keyword in keywords)
CategoryScore(text_lower, keywords) ==
    SumSeq([i \in 1..Len(keywords) |-> Count(text_lower, keywords[i])])

scalability_scores(text_lower) ==
    [category \in DOMAIN scalability_keywords |->
        CategoryScore(text_lower, scalability_keywords[category])]

\* sum(scalability_scores.values())
total_scalability(scores) ==
    scores.architecture + scores.growth + scores.automation + scores.limitations

\* as scalability_rating, with >= for the first >
scalability_rating_ge(total) ==
    IF total >= 5 THEN "High"
    ELSE IF total > 2 THEN "Medium"
    ELSE "Low"

scalability_rating(total) ==
    IF total > 5 THEN "High"
    ELSE IF total > 2 THEN "Medium"
    ELSE "Low"

(***************************************************************************)
(* analyze_content: market validation                                      *)
(***************************************************************************)
\* (?:similar to|like|competitors?|alternatives?) in the order the regex
\* engine tries them: alternatives left to right, the optional s greedy
CompetitorTriggers ==
    <<"similar to", "like", "competitors", "competitor", "alternatives", "alternative">>

\* as FoldCase, with the re.IGNORECASE flag left out
FoldCaseOff(s) == s

\* re.IGNORECASE applied to the literals of the pattern
FoldCase(s) == Lower(s)

\* [A-Z] under re.IGNORECASE
NameStart(c) == LowerChar(c) \in LowerSet

\* trigger, \s, [A-Z], first character of \w+ , all starting at i
TriggerMatchAt(t, folded, i, trig) ==
    LET j == i + Len(trig)
    IN  /\ StartsWithAt(folded, i, trig)
        /\ j + 2 <= Len(t)
        /\ Ch(t, j) \in SpaceSet
        /\ NameStart(Ch(t, j + 1))
        /\ Ch(t, j + 2) \in WordSet

FirstTrigger(t, folded, i) ==
    LET ms == {n \in 1..Len(CompetitorTriggers) :
                  TriggerMatchAt(t, folded, i, CompetitorTriggers[n])}
    IN  IF ms = {} THEN 0 ELSE CHOOSE n \in ms : \A m \in ms : n <= m

RECURSIVE WordEnd(_, _)
\* \w+ is greedy: the last index of the run of word characters holding k
WordEnd(t, k) == IF k < Len(t) /\ Ch(t, k + 1) \in WordSet THEN WordEnd(t, k + 1) ELSE k

RECURSIVE FindIterFrom(_, _, _)
\* re.finditer: leftmost match, then resume after the end of the match
FindIterFrom(t, folded, i) ==
    IF i > Len(t) THEN <<>>
    ELSE LET n == FirstTrigger(t, folded, i)
         IN  IF n = 0 THEN FindIterFrom(t, folded, i + 1)
             ELSE LET ws == i + Len(CompetitorTriggers[n]) + 1
                      we == WordEnd(t, ws + 1)
                  IN  <<SubSeq(t, ws, we)>> \o FindIterFrom(t, folded, we + 1)

\* [m.group(1) for m in re.finditer(..., text, re.IGNORECASE)]
CompetitorMatches(t) == FindIterFrom(t, FoldCase(t), 1)

\* as Dedup, with set(...) left out
DedupOff(q) == q

RECURSIVE Dedup(_)
\* the distinct elements, in the order of their first insertion
Dedup(q) ==
    IF q = <<>> THEN <<>>
    ELSE LET front == Dedup(SubSeq(q, 1, Len(q) - 1))
             last  == q[Len(q)]
         IN  IF last \in Elems(front) THEN front ELSE Append(front, last)

\* Iteration order of a set of str: fixed by the insertions and by the
\* process's string-hash seed, and by nothing else.
SetOrder(q, seed) ==
    IF q = <<>> THEN <<>>
    ELSE LET n == Len(q)
             k == seed % n
         IN  SubSeq(q, k + 1, n) \o SubSeq(q, 1, k)

\* list(set(...))
ListOfSet(q) == SetOrder(Dedup(q), hashseed)

ExistingUsagePhrases == {"used by", "deployed at", "implemented with", "customers include"}

CaseStudyPhrases == {"case study", "success story", "testimonial"}

SearchAny(s, phrases) == \E p \in phrases : Contains(s, p)

DifferentiatorWords == <<"unique", "different", "only", "exclusive">>

DifferentiatorAt(s, i) ==
    LET ms == {n \in 1..Len(DifferentiatorWords) :
                  LET w == DifferentiatorWords[n]
                  IN  /\ StartsWithAt(s, i, w)
                      /\ i + Len(w) <= Len(s)
                      /\ Ch(s, i + Len(w)) \in SpaceSet}
    IN  IF ms = {} THEN 0 ELSE CHOOSE n \in ms : \A m \in ms : n <= m

RECURSIVE FindAllFrom(_, _)
\* len(re.findall(r"(unique|different|only|exclusive)\s", text_lower))
FindAllFrom(s, i) ==
    IF i > Len(s) THEN 0
    ELSE LET n == DifferentiatorAt(s, i)
         IN  IF n = 0 THEN FindAllFrom(s, i + 1)
             ELSE 1 + FindAllFrom(s, i + Len(DifferentiatorWords[n]) + 1)

CountDifferentiators(text_lower) == FindAllFrom(text_lower, 1)

(***************************************************************************)
(* analyze_content: feasibility and recommendations                        *)
(***************************************************************************)
\* re.search(r'\$\d+', text)
HasDollarAmount(t) ==
    \E i \in 1..(Len(t) - 1) : Ch(t, i) = "$" /\ Ch(t, i + 1) \in DigitSet

\* as MissingFinancialNumbers, with the dollar-amount test left out
MissingFinancialNumbersNoDollar(t, text_lower) == Contains(text_lower, "financial")

MissingFinancialNumbers(t, text_lower) ==
    Contains(text_lower, "financial") /\ ~HasDollarAmount(t)

MissingMarketResearch(text_lower) ==
    /\ Contains(text_lower, "market")
    /\ ~(Contains(text_lower, "research") \/ Contains(text_lower, "analysis"))

feasibility_issues(t, text_lower) ==
    LET flagged ==
            (IF MissingFinancialNumbers(t, text_lower)
             THEN <<"Missing specific financial numbers">> ELSE <<>>)
            \o
            (IF MissingMarketResearch(text_lower)
             THEN <<"Missing market research/analysis">> ELSE <<>>)
    IN  IF flagged = <<>> THEN <<"No major feasibility issues detected">> ELSE flagged

recommendations(text_lower) ==
    LET recs ==
            (IF /\ Contains(text_lower, "scale")
                /\ ~(Contains(text_lower, "test") \/ Contains(text_lower, "load"))
             THEN <<"Add load testing documentation">> ELSE <<>>)
            \o
            (IF /\ Contains(text_lower, "competitor")
                /\ ~(Contains(text_lower, "compare") \/ Contains(text_lower, "differentiat"))
             THEN <<"Include competitor comparison">> ELSE <<>>)
    IN  IF recs = <<>> THEN <<"Document appears comprehensive">> ELSE recs

(***************************************************************************)
(* analyze_content                                                         *)
(***************************************************************************)
\* as ShortCircuits, with the sentinel test forgotten
ShortCircuitsEmptyOnly(t) == t = ""

\* `not text or text.startswith("Text extraction failed")`
ShortCircuits(t) == t = "" \/ StartsWith(t, ExtractionFailedPrefix)

UnavailableAnalysis ==
    [summary         |-> "No content available for analysis",
     key_findings    |-> <<"Document could not be processed">>,
     scalability     |-> [score |-> 0, rating |-> "Not assessed",
                          details |-> [architecture |-> 0, growth |-> 0,
                                       automation |-> 0, limitations |-> 0]],
     market          |-> [existing_usage |-> FALSE, competitors |-> <<>>,
                          differentiators |-> 0, case_studies |-> FALSE],
     feasibility     |-> <<"Analysis unavailable">>,
     recommendations |-> <<"Upload a valid DOCX file">>]

analyze_content(t) ==
    IF ShortCircuits(t) THEN UnavailableAnalysis
    ELSE LET text_lower  == Lower(t)
             scores      == scalability_scores(text_lower)
             total       == total_scalability(scores)
             competitors == ListOfSet(CompetitorMatches(t))
             differentiators == CountDifferentiators(text_lower)
         IN  [summary         |-> robust_summary(t),
              key_findings    |-> <<"Contains business content",
                                    "Found " \o ToString(Len(competitors)) \o " competitors",
                                    "Found " \o ToString(differentiators) \o " differentiators">>,
              scalability     |-> [score |-> total,
                                   rating |-> scalability_rating(total),
                                   details |-> scores],
              market          |-> [existing_usage  |-> SearchAny(text_lower, ExistingUsagePhrases),
                                   competitors     |-> Take(competitors, 3),
                                   differentiators |-> differentiators,
                                   case_studies    |-> SearchAny(text_lower, CaseStudyPhrases)],
              feasibility     |-> feasibility_issues(t, text_lower),
              recommendations |-> recommendations(text_lower)]

(***************************************************************************)
(* compute_viability_score                                                 *)
(***************************************************************************)
\* as viability_status, with > for the first >=
viability_status_gt(score) ==
    IF score > 80 THEN "Strong"
    ELSE IF score >= 60 THEN "Promising"
    ELSE "Needs Improvement"

viability_status(score) ==
    IF score >= 80 THEN "Strong"
    ELSE IF score >= 60 THEN "Promising"
    ELSE "Needs Improvement"

\* `not analysis["feasibility"] or "No major ..." in analysis["feasibility"]`
FeasibilityBonus(feasibility) ==
    IF feasibility = <<>> \/ "No major feasibility issues detected" \in Elems(feasibility)
    THEN 10 ELSE 0

compute_viability_score(a) ==
    LET score == a.scalability.score * 10
                 + a.market.differentiators * 5
                 + (IF a.market.existing_usage THEN 10 ELSE 0)
                 + FeasibilityBonus(a.feasibility)
    IN  [score |-> score, status |-> viability_status(score)]

(***************************************************************************)
(* AnalysisResponse                                                        *)
(***************************************************************************)
DefaultScalabilityAnalysis ==
    [score |-> 0, rating |-> "Not assessed", architecture_score |-> 0,
     growth_potential |-> 0, automation_level |-> 0, identified_limitations |-> 0]

DefaultMarketValidation ==
    [existing_usage |-> FALSE, competitors |-> <<>>, differentiators |-> 0,
     case_studies |-> FALSE]

\* `filename: str` has no default and does not admit None
ValidFilename(fn) == fn # NoneVal

\* the AnalysisResponse built in the try block
ReportOf(fn, a, v) ==
    [filename             |-> fn[1],
     summary              |-> a.summary,
     key_findings         |-> a.key_findings,
     scalability_analysis |->
         [score                  |-> a.scalability.score,
          rating                 |-> a.scalability.rating,
          architecture_score     |-> a.scalability.details.architecture,
          growth_potential       |-> a.scalability.details.growth,
          automation_level       |-> a.scalability.details.automation,
          identified_limitations |-> a.scalability.details.limitations],
     market_validation    |->
         [existing_usage  |-> a.market.existing_usage,
          competitors     |-> a.market.competitors,
          differentiators |-> a.market.differentiators,
          case_studies    |-> a.market.case_studies],
     feasibility_issues   |-> a.feasibility,
     recommendations      |-> a.recommendations,
     viability_score      |-> v.score,
     viability_status     |-> v.status]

\* the AnalysisResponse built in the except block
FailureReport(fn, e) ==
    [filename             |-> fn[1],
     summary              |-> "Analysis failed: " \o e,
     key_findings         |-> <<"Complete analysis failure">>,
     scalability_analysis |-> DefaultScalabilityAnalysis,
     market_validation    |-> DefaultMarketValidation,
     feasibility_issues   |-> <<"System error occurred">>,
     recommendations      |-> <<"Contact support">>,
     viability_score      |-> 0,
     viability_status     |-> "Not assessed"]

ValidationError == "1 validation error for AnalysisResponse"

(***************************************************************************)
(* Uploads.                                                                *)
(***************************************************************************)
Vocabulary ==
    {" ",
     "global scale limit used by",
     "We expand global. CI/CD!",
     "LIKE Acme ALTERNATIVE Beta",
     "competitors Core alternative Dyn",
     "we like to scale",
     "financial",
     "market",
     "$5 research",
     " only unique test "}

Filenames == {NoneVal, Some("a.DOCX"), Some("a.txt")}

Documents == UNION {[1..n -> Vocabulary] : n \in 0..MaxParas}

Files ==
    {[filename |-> fn, readable |-> FALSE, paragraphs |-> <<>>] : fn \in Filenames}
    \cup
    {[filename |-> fn, readable |-> TRUE, paragraphs |-> d] :
        fn \in Filenames, d \in Documents}

HashSeeds == 0..(NumSeeds - 1)

(***************************************************************************)
(* The request handler, analyze_document, step by step.                    *)
(***************************************************************************)
Init ==
    /\ pc = "idle"
    /\ hashseed \in HashSeeds
    /\ file = Nil
    /\ text = ""
    /\ analysis = Nil
    /\ viability = Nil
    /\ response = Nil
    /\ outcome = "none"
    /\ error = ""
    /\ prev = Nil

Begin(f, p, seed) ==
    /\ pc' = "extract"
    /\ hashseed' = seed
    /\ file' = f
    /\ prev' = p
    /\ text' = ""
    /\ analysis' = Nil
    /\ viability' = Nil
    /\ response' = Nil
    /\ outcome' = "pending"
    /\ error' = ""

\* a client posts a file to /analyze
Receive ==
    /\ pc = "idle"
    /\ \E f \in Files : Begin(f, Nil, hashseed)

\* the client posts the same file again; prev remembers the first analysis
Resubmit ==
    /\ pc = "done"
    /\ analysis # Nil
    /\ Begin(file, [text |-> text, analysis |-> analysis, hashseed |-> hashseed],
             hashseed)

\* the server process is restarted, which salts str hashes anew, and the
\* client posts the same file again
ResubmitAfterRestart ==
    /\ pc = "done"
    /\ analysis # Nil
    /\ \E s \in HashSeeds \ {hashseed} :
          Begin(file, [text |-> text, analysis |-> analysis, hashseed |-> hashseed], s)

\* the exchange is over; the server waits for the next upload
Close ==
    /\ pc = "done"
    /\ pc' = "idle"
    /\ file' = Nil
    /\ text' = ""
    /\ analysis' = Nil
    /\ viability' = Nil
    /\ response' = Nil
    /\ outcome' = "none"
    /\ error' = ""
    /\ prev' = Nil
    /\ UNCHANGED hashseed

SafeExtractText ==
    /\ pc = "extract"
    /\ text' = safe_extract_text(file)
    /\ pc' = "analyze"
    /\ UNCHANGED <<hashseed, file, analysis, viability, response, outcome, error, prev>>

AnalyzeContent ==
    /\ pc = "analyze"
    /\ analysis' = analyze_content(text)
    /\ pc' = "score"
    /\ UNCHANGED <<hashseed, file, text, viability, response, outcome, error, prev>>

ComputeViabilityScore ==
    /\ pc = "score"
    /\ viability' = compute_viability_score(analysis)
    /\ pc' = "respond"
    /\ UNCHANGED <<hashseed, file, text, analysis, response, outcome, error, prev>>

\* return AnalysisResponse(filename=file.filename, ...)
Respond ==
    /\ pc = "respond"
    /\ IF ValidFilename(file.filename)
       THEN /\ response' = ReportOf(file.filename, analysis, viability)
            /\ outcome' = "returned"
            /\ pc' = "done"
            /\ UNCHANGED error
       ELSE /\ error' = ValidationError
            /\ pc' = "except"
            /\ UNCHANGED <<response, outcome>>
    /\ UNCHANGED <<hashseed, file, text, analysis, viability, prev>>

\* except Exception as e: return AnalysisResponse(filename=file.filename, ...)
HandleFailure ==
    /\ pc = "except"
    /\ IF ValidFilename(file.filename)
       THEN /\ response' = FailureReport(file.filename, error)
            /\ outcome' = "returned"
       ELSE /\ outcome' = "raised"
            /\ UNCHANGED response
    /\ pc' = "done"
    /\ UNCHANGED <<hashseed, file, text, analysis, viability, error, prev>>

Next ==
    \/ Receive
    \/ Resubmit
    \/ ResubmitAfterRestart
    \/ Close
    \/ SafeExtractText
    \/ AnalyzeContent
    \/ ComputeViabilityScore
    \/ Respond
    \/ HandleFailure

Spec == Init /\ [][Next]_vars

(***************************************************************************)
(* Properties.                                                             *)
(***************************************************************************)
\* analyze_content has returned for the current request
Analyzed == pc \in {"score", "respond", "except", "done"}

\* compute_viability_score has returned for the current request
Scored == pc \in {"respond", "except", "done"}

\* analyze_document has returned a report for the current request
Returned == pc = "done" /\ outcome = "returned"

ExtractionFailed == StartsWith(text, ExtractionFailedPrefix)

\* analyze_content went past its first return and evaluated the rules
RulesRan == Analyzed /\ text # "" /\ ~ExtractionFailed

Min(a, b) == IF a < b THEN a ELSE b

DefaultFeasibility == "No major feasibility issues detected"

FlaggedMessages == {"Missing specific financial numbers", "Missing market research/analysis"}

TriggerPhrases ==
    {"similar to", "like", "competitor", "competitors", "alternative", "alternatives"}

EmptyDocument(f) == f.readable /\ StrippedParagraphs(f.paragraphs) = <<>>

\* C2: for an empty or unreadable document the report has summary
\* "No content available for analysis" and key_findings
\* ["Document could not be processed"], and no rule ran on the extractor's
\* output.
C2_Claim ==
    (Returned /\ (EmptyDocument(file) \/ ~file.readable)) =>
        /\ response.summary = "No content available for analysis"
        /\ response.key_findings = <<"Document could not be processed">>
        /\ analysis = UnavailableAnalysis

\* C3: analyze_document never raises; a request on which the except clause
\* ran ends with the report carrying the filename, the summary embedding the
\* error, ["Complete analysis failure"], ["System error occurred"] and
\* ["Contact support"].
C3_Claim ==
    pc = "done" =>
        /\ outcome = "returned"
        /\ error # "" =>
              /\ response.filename = file.filename[1]
              /\ response.summary = "Analysis failed: " \o error
              /\ response.key_findings = <<"Complete analysis failure">>
              /\ response.feasibility_issues = <<"System error occurred">>
              /\ response.recommendations = <<"Contact support">>

\* C4: when the rules ran, the scalability score is the sum of the four
\* category counts, and the rating is High iff total > 5, Medium iff
\* 2 < total <= 5, Low iff total <= 2.
C4_ScoreAndRating ==
    RulesRan =>
        LET d     == analysis.scalability.details
            total == d.architecture + d.growth + d.automation + d.limitations
            r     == analysis.scalability.rating
        IN  /\ analysis.scalability.score = total
            /\ r \in {"High", "Medium", "Low"}
            /\ r = "High" <=> total > 5
            /\ r = "Medium" <=> (2 < total /\ total <= 5)
            /\ r = "Low" <=> total <= 2

C4_Witness ==
    /\ RulesRan
    /\ analysis.scalability.score = 5
    /\ analysis.scalability.rating = "Medium"

C4_WitnessHigh ==
    /\ RulesRan
    /\ analysis.scalability.score = 6
    /\ analysis.scalability.rating = "High"

\* a trigger phrase in any letter case, one whitespace character, then a
\* capitalized word of two or more characters, starting at index i of t
TriggerBeforeNameAt(t, i) ==
    \E p \in TriggerPhrases :
        LET j == i + Len(p)
        IN  /\ j + 2 <= Len(t)
            /\ Lower(SubSeq(t, i, j - 1)) = p
            /\ Ch(t, j) \in SpaceSet
            /\ Ch(t, j + 1) \in UpperSet
            /\ Ch(t, j + 2) \in WordSet

\* C5: the competitors list has at most 3 entries, no two of them equal,
\* and a text holding a trigger phrase in any letter case followed by a
\* capitalized word yields a competitor.
C5_Competitors ==
    Analyzed =>
        LET c == analysis.market.competitors
        IN  /\ Len(c) <= 3
            /\ \A i, j \in 1..Len(c) : c[i] = c[j] => i = j
            /\ (RulesRan /\ \E i \in 1..Len(text) : TriggerBeforeNameAt(text, i))
                  => c # <<>>

C5_Witness ==
    /\ RulesRan
    /\ StartsWith(text, "LIKE Acme ALTERNATIVE Beta")
    /\ Len(analysis.market.competitors) = 3

\* C6: when the rules ran, the feasibility list is non-empty, and it holds
\* the default message iff neither check fires: (a) "financial" without a
\* '$' followed by a digit, (b) "market" without "research" and "analysis".
C6_Feasibility ==
    RulesRan =>
        LET low    == Lower(text)
            checkA == Contains(low, "financial")
                      /\ ~(\E i \in 1..(Len(text) - 1) :
                              Ch(text, i) = "$" /\ Ch(text, i + 1) \in DigitSet)
            checkB == Contains(low, "market")
                      /\ ~Contains(low, "research") /\ ~Contains(low, "analysis")
        IN  /\ analysis.feasibility # <<>>
            /\ DefaultFeasibility \in Elems(analysis.feasibility)
                  <=> (~checkA /\ ~checkB)

C6_Witness ==
    /\ RulesRan
    /\ Contains(text, "financial")
    /\ Contains(text, "$5")
    /\ analysis.feasibility = <<DefaultFeasibility>>

C6_WitnessFlagged ==
    /\ RulesRan
    /\ analysis.feasibility = <<"Missing specific financial numbers",
                                "Missing market research/analysis">>

StatusMatches(v) ==
    /\ v.status \in {"Strong", "Promising", "Needs Improvement"}
    /\ v.status = "Strong" <=> v.score >= 80
    /\ v.status = "Promising" <=> (60 <= v.score /\ v.score < 80)
    /\ v.status = "Needs Improvement" <=> v.score < 60

BaseScore(a) ==
    10 * a.scalability.score + 5 * a.market.differentiators
    + (IF a.market.existing_usage THEN 10 ELSE 0)

\* C7, as stated: for every analysis, the short-circuited one included,
\* score = 10 x total + 5 x differentiators + 10 if existing_usage + 10 if
\* the feasibility list holds neither flagged-issue message; Strong iff
\* score >= 80, Promising iff 60 <= score < 80, Needs Improvement otherwise.
C7_Original ==
    Scored =>
        /\ viability.score =
              BaseScore(analysis)
              + (IF Elems(analysis.feasibility) \cap FlaggedMessages = {} THEN 10 ELSE 0)
        /\ StatusMatches(viability)

\* C7, amended: the last 10 is added when the rules ran and the feasibility
\* list holds neither flagged-issue message; the short-circuited analysis,
\* whose list is ["Analysis unavailable"], gets none and scores 0.
C7_Amended ==
    Scored =>
        /\ viability.score =
              BaseScore(analysis)
              + (IF RulesRan /\ Elems(analysis.feasibility) \cap FlaggedMessages = {}
                 THEN 10 ELSE 0)
        /\ ~RulesRan => viability.score = 0
        /\ StatusMatches(viability)

C7_Witness ==
    /\ Scored
    /\ RulesRan
    /\ viability.score = 80
    /\ viability.status = "Strong"

C7_WitnessPromising ==
    /\ Scored
    /\ viability.score = 60
    /\ viability.status = "Promising"

C7_WitnessUnavailable ==
    /\ Scored
    /\ ~RulesRan
    /\ viability.score = 0

\* the current request repeats the previous one, and both were analyzed
Repeated == Analyzed /\ prev # Nil /\ prev.text = text

SansCompetitors(a) == [a EXCEPT !.market.competitors = <<>>]

C8_WitnessSameSeed ==
    /\ Repeated
    /\ prev.hashseed = hashseed
    /\ Len(analysis.market.competitors) = 3

\* occurrences of sub in s, at every index
Occurrences(s, sub) == Cardinality({i \in 1..Len(s) : StartsWithAt(s, i, sub)})

\* C9: each category count is the number of case-insensitive occurrences in
\* the text of the category's keywords, summed over the keywords.
C9_Claim ==
    RulesRan =>
        \A category \in DOMAIN scalability_keywords :
            LET kws == scalability_keywords[category]
            IN  analysis.scalability.details[category] =
                    SumSeq([k \in 1..Len(kws) |->
                               Occurrences(Lower(text), Lower(kws[k]))])

\* name stands in t right after a trigger phrase and one whitespace character
FollowsTrigger(t, name) ==
    \E i \in 1..Len(t), p \in TriggerPhrases :
        LET j == i + Len(p)
        IN  /\ j <= Len(t)
            /\ Lower(SubSeq(t, i, j - 1)) = p
            /\ Ch(t, j) \in SpaceSet
            /\ StartsWithAt(t, j + 1, name)

\* C10: every entry of the competitors list is a capitalized word that
\* immediately follows a trigger phrase in the text.
C10_Claim ==
    Analyzed =>
        \A k \in 1..Len(analysis.market.competitors) :
            LET name == analysis.market.competitors[k]
            IN  /\ Ch(name, 1) \in UpperSet
                /\ FollowsTrigger(text, name)

====
